---- MODULE Spec2Model ----
(***************************************************************************)
(* M3U live stream dead link checker (.github/scripts/check_m3u_links.js). *)
(*                                                                         *)
(* The model follows Node's scheduling: an event handler runs to           *)
(* completion (one action), the continuation of an `await` runs as a       *)
(* microtask before any further I/O or timer event is delivered, and a     *)
(* promise is settled by the first resolve/reject only.  The events of an  *)
(* attempt's requests are modelled until checkUrl has taken the attempt's  *)
(* outcome: from then on their listeners can only settle a promise that is *)
(* settled and that nothing awaits.                                        *)
(*                                                                         *)
(* Two specifications share the variables.  Spec (and FairSpec) is the run *)
(* of runCheck over a playlist of n entries, of which only the number is   *)
(* kept.  ParseSpec is parseM3U, line by line, on the files made of up to  *)
(* MaxLines lines of LineSet; it ends by handing entries.length to n.      *)
(***************************************************************************)
EXTENDS Integers, Sequences, FiniteSets, TLC

\* ---------------------------------------------------------------- constants

\* constructor, this.REQUEST_TIMEOUT
REQUEST_TIMEOUT == 10000

\* constructor, this.MAX_RETRIES
MAX_RETRIES == 2

\* constructor, this.DELAY_BETWEEN_REQUESTS
DELAY_BETWEEN_REQUESTS == 1000

\* ------------------------------------------------------------------- bounds

\* largest number of entries parseM3U returns in the model
MaxEntries == 3

\* largest number of lines of the playlist file in the model
MaxLines == 4

\* HTTP status codes a server answers with in the model
Statuses == {200, 404, 405}

\* error objects the 'error' event of a request carries: {code, message}
Errors ==
    { [code |-> "ECONNREFUSED", message |-> "connect ECONNREFUSED"],
      [code |-> "ENOTFOUND",    message |-> "getaddrinfo ENOTFOUND"],
      [code |-> "ETIMEDOUT",    message |-> "connect ETIMEDOUT"],
      [code |-> "ECONNRESET",   message |-> "socket hang up"] }

\* the error a destroyed request emits (req.destroy() with no argument)
HangUp == [code |-> "ECONNRESET", message |-> "socket hang up"]

\* error objects of the GET request in the model: its listener passes any
\* error on as it came, whatever its code
GetErrors == { err \in Errors : err.code \in {"ECONNREFUSED", "ECONNRESET"} }

Attempts == 0 .. (MAX_RETRIES - 1)

\* ---------------------------------------------------------------- variables

VARIABLES
    fileExists,   \* fs.existsSync(M3U_FILE)
    fileRead,     \* fs.readFileSync: "error" (it throws), "empty" (''), "text"
    n,            \* entries.length
    pc,           \* runCheck: "start", "probe", "delay", "done", "exit"
    i,            \* runCheck: loop index
    aliveCount,   \* runCheck: aliveCount
    deadStreams,  \* runCheck: deadStreams, as <<[idx, error, statusCode]>>
    exitCode,     \* process exit status (-1 while running)
    rate,         \* the summary's success rate as printed ("" while not computed)
    results,      \* history: the results checkUrl returned, in order
    cpc,          \* checkUrl: "idle", "await", "sleep", "returned"
    attempt,      \* checkUrl: loop variable
    ret,          \* checkUrl's completion: "none", "value", "undefined"
    result,       \* checkUrl's returned object
    promise,      \* the promise makeRequest returned for this attempt
    head,         \* the HEAD request of this attempt
    get,          \* the GET fallback request of this attempt
    calls,        \* history: makeRequest calls of the current checkUrl call
    gets,         \* history: per attempt, makeGetRequest calls
    gotResp,      \* history: per attempt, a 'response' was received
    probeLog,     \* history: attempts, outcomes and sleeps of this checkUrl
    active,       \* history: checkUrl calls in progress
    runLog,       \* history: runCheck's probes and sleeps, in order
    content,      \* parseM3U: content.split('\n'), each line a sequence of atoms
    lines,        \* parseM3U: lines (trimmed, the empty ones filtered out)
    pos,          \* parseM3U: position of the for...of loop in lines
    entries,      \* parseM3U: entries
    currentExtinf,\* parseM3U: currentExtinf
    ppc           \* parseM3U: "start", "loop", "returned", "thrown"

vars == << fileExists, fileRead, n, pc, i, aliveCount, deadStreams, exitCode,
           rate, results, cpc, attempt, ret, result, promise, head, get,
           calls, gets, gotResp, probeLog, active, runLog,
           content, lines, pos, entries, currentExtinf, ppc >>

parseVars == << content, lines, pos, entries, currentExtinf, ppc >>
fileVars  == << fileExists, fileRead, n, parseVars >>
runVars   == << fileVars, pc, i, aliveCount, deadStreams, exitCode, rate,
                results, runLog >>
checkVars == << cpc, attempt, ret, result, calls, probeLog, active >>
probeVars == << pc, i, aliveCount, deadStreams, exitCode, rate, results, runLog,
                checkVars, promise, head, get, gets, gotResp >>

\* ------------------------------------------------------------------ helpers

Ev(e, k) == [ev |-> e, k |-> k]

\* a promise: new Promise((resolve, reject) => ...)
NoPromise   == [state |-> "none",    statusCode |-> 0, message |-> ""]
Pending     == [state |-> "pending", statusCode |-> 0, message |-> ""]

\* faulty variant: an error status is turned into a rejection
ResolveRejectingErrors(p, s) ==
    IF p.state # "pending" THEN p
    ELSE IF s >= 400
    THEN [state |-> "rejected", statusCode |-> 0, message |-> "HTTP error"]
    ELSE [state |-> "resolved", statusCode |-> s, message |-> ""]

\* resolve({ statusCode: s }): the first settlement wins
Resolve(p, s) ==
    IF p.state = "pending"
    THEN [state |-> "resolved", statusCode |-> s, message |-> ""]
    ELSE p

\* reject(new Error(m)): the first settlement wins
Reject(p, m) ==
    IF p.state = "pending"
    THEN [state |-> "rejected", statusCode |-> 0, message |-> m]
    ELSE p

NoRequest == [state |-> "none", status |-> 0]

\* `Timeout after ${this.REQUEST_TIMEOUT}ms`
TimeoutMessage == "Timeout after " \o ToString(REQUEST_TIMEOUT) \o "ms"

\* makeRequest's req.on('error', ...): the message of the Error it rejects with
ClassifyError(err) ==
    IF err.code = "ECONNREFUSED" THEN "Connection refused"
    ELSE IF err.code = "ENOTFOUND" THEN "Host not found"
    ELSE IF err.code = "ETIMEDOUT" THEN "Connection timeout"
    ELSE "Connection error: " \o err.message

\* makeGetRequest's req.on('error', ...): reject(error), the error as it came
GetErrorMessage(err) == err.message

\* faulty variant: the fallback is taken for the wrong status
NeedsGetFallbackWrongStatus(s) == s = 404

\* makeRequest's response callback: res.statusCode === 405
NeedsGetFallback(s) == s = 405

\* faulty variant: only server errors count as dead
IsAliveStatusBelow500(s) == s < 500

\* checkUrl: result.statusCode < 400
IsAliveStatus(s) == s < 400

\* checkUrl: the object returned for a resolved attempt
StatusResult(s) ==
    IF IsAliveStatus(s)
    THEN [isAlive |-> TRUE,  error |-> "", statusCode |-> s]
    ELSE [isAlive |-> FALSE, error |-> "HTTP " \o ToString(s), statusCode |-> s]

\* faulty variant: the failure result carries no status code
FailureResultNoStatus(m) == [isAlive |-> FALSE, error |-> m, statusCode |-> -1]

\* checkUrl: the object returned from the catch block
FailureResult(m) == [isAlive |-> FALSE, error |-> m, statusCode |-> 0]

\* faulty variant: the last attempt is compared off by one
IsLastAttemptOffByOne(a) == a = MAX_RETRIES

\* checkUrl: attempt === this.MAX_RETRIES - 1
IsLastAttempt(a) == a = MAX_RETRIES - 1

\* checkUrl: the for loop's condition, attempt < this.MAX_RETRIES
LoopCond(a) == a < MAX_RETRIES

\* faulty variant: the loop variable is not advanced
NextAttemptStuck(a) == a

\* checkUrl: the for loop's attempt++
NextAttempt(a) == a + 1

\* faulty variant: the backoff is scaled by the attempt index itself
BackoffByIndex(a) == DELAY_BETWEEN_REQUESTS * a

\* checkUrl: this.DELAY_BETWEEN_REQUESTS * (attempt + 1)
Backoff(a) == DELAY_BETWEEN_REQUESTS * (a + 1)

\* faulty variant: the delay is also taken after the last entry
MoreEntriesInclLast(k, len) == k < len

\* runCheck: i < entries.length - 1
MoreEntries(k, len) == k < len - 1

\* faulty variant: the empty playlist is not recognised
NoEntriesNever(len) == len < 0

\* runCheck: entries.length === 0
NoEntries(len) == len = 0

\* faulty variant: a live stream is counted twice
CountAliveTwice(c) == c + 2

\* runCheck: aliveCount++
CountAlive(c) == c + 1

\* faulty variant: the newest dead stream is put in front
PushDeadInFront(list, k, r) ==
    << [idx |-> k, error |-> r.error, statusCode |-> r.statusCode] >> \o list

\* runCheck: deadStreams.push({ entry, error, statusCode }), the entry by its
\* index in entries
PushDead(list, k, r) ==
    Append(list, [idx |-> k, error |-> r.error, statusCode |-> r.statusCode])

\* runCheck: ((aliveCount / entries.length) * 100).toFixed(1), the string
\* printed before the "%" sign; 0 / 0 is NaN
SuccessRate(alive, len) ==
    IF len = 0 THEN "NaN"
    ELSE LET tenths == (2000 * alive + len) \div (2 * len)
         IN  ToString(tenths \div 10) \o "." \o ToString(tenths % 10)

NoResult == [isAlive |-> FALSE, error |-> "", statusCode |-> -1]

\* A continuation of an await is queued: it runs before any I/O or timer
\* event is delivered.
MicrotaskPending ==
    \/ cpc = "await" /\ promise.state \in {"resolved", "rejected"}
    \/ cpc = "returned"

\* An I/O event of this attempt's requests can be delivered.
CanDeliver == cpc = "await" /\ ~MicrotaskPending

\* ------------------------------------------------------------------ parsing

\* A line is a sequence of atoms.  An atom is a run of characters; the
\* characters parseM3U looks at ('#', ',', '"', white space) and the words
\* "EXTINF:" and "group-title=" are atoms of their own.
Hash      == "#"
ExtinfTag == "EXTINF:"
Comma     == ","
Quote     == "\""
Space     == " "
GroupAttr == "group-title="

\* the strings new URL() accepts, among those of the model (they have a
\* scheme; "stream.ts" has none)
AbsoluteUrls == { "http://a.example/live.m3u8", "https://b.example/tv" }

\* the lines a playlist file is made of in the model
HeaderLine     == << Hash, "EXTM3U" >>
ShowLine       == << Hash, ExtinfTag, "-1", Space, GroupAttr, Quote, "News", Quote,
                     Comma, "Channel", Comma, Space, "The", Space, "Show" >>
PlainLine      == << Hash, ExtinfTag, "-1", Comma, "One" >>
GroupCommaLine == << Hash, ExtinfTag, "-1", Space, GroupAttr, Quote, "News", Comma,
                     Space, "Local", Quote, Comma, "City" >>
EmptyGroupLine == << Hash, ExtinfTag, "-1", Space, GroupAttr, Quote, Quote,
                     Comma, "Two" >>
NoCommaLine    == << Hash, ExtinfTag, "-1" >>
BareLine       == << Hash, ExtinfTag >>
UrlLineA       == << "http://a.example/live.m3u8" >>
UrlLineB       == << Space, "https://b.example/tv", Space >>
BadLine        == << "stream.ts" >>
BlankLine      == << Space >>
EmptyLine      == << >>

LineSet ==
    { HeaderLine, ShowLine, PlainLine, GroupCommaLine, EmptyGroupLine,
      NoCommaLine, BareLine, UrlLineA, UrlLineB, BadLine, BlankLine, EmptyLine }

\* content.split('\n') of the files of the model: at least one line
Contents == UNION { [1 .. k -> LineSet] : k \in 1 .. MaxLines }

\* the text of a sequence of atoms
RECURSIVE Concat(_)
Concat(l) == IF l = << >> THEN "" ELSE Head(l) \o Concat(Tail(l))

\* String.prototype.trim
RECURSIVE Trim(_)
Trim(l) ==
    IF l = << >> THEN l
    ELSE IF Head(l) = Space THEN Trim(Tail(l))
    ELSE IF l[Len(l)] = Space THEN Trim(SubSeq(l, 1, Len(l) - 1))
    ELSE l

\* content.split('\n').map(line => line.trim()).filter(line => line)
SplitLines(c) ==
    SelectSeq([k \in 1 .. Len(c) |-> Trim(c[k])], LAMBDA l : l # << >>)

\* String.prototype.startsWith
StartsWith(l, prefix) ==
    Len(l) >= Len(prefix) /\ SubSeq(l, 1, Len(prefix)) = prefix

\* String.prototype.lastIndexOf, 1-based; 0 where JavaScript gives -1
LastIndexOf(l, a) ==
    LET at == { k \in 1 .. Len(l) : l[k] = a }
    IN  IF at = {} THEN 0 ELSE CHOOSE k \in at : \A m \in at : m <= k

\* parseM3U: extinfContent.lastIndexOf(',')
TitleSplit(l) == LastIndexOf(l, Comma)

\* attributesPart.match(/group-title="([^"]+)"/): the captured group of the
\* leftmost match, '' when there is none
GroupTitleOf(attrs) ==
    LET closing(p) == { q \in p + 2 .. Len(attrs) : attrs[q] = Quote }
        first(p)   == CHOOSE q \in closing(p) : \A m \in closing(p) : q <= m
        matches    == { p \in 1 .. Len(attrs) - 1 :
                          /\ attrs[p] = GroupAttr
                          /\ attrs[p + 1] = Quote
                          /\ closing(p) # {}
                          /\ first(p) >= p + 3 }
    IN  IF matches = {} THEN ""
        ELSE LET p == CHOOSE x \in matches : \A m \in matches : x <= m
             IN  Concat(SubSeq(attrs, p + 2, first(p) - 1))

\* currentExtinf = null
NoExtinf == [set |-> FALSE, title |-> "", groupTitle |-> ""]

\* parseM3U: the value a line starting with "#EXTINF:" gives currentExtinf
ParseExtinf(line) ==
    LET extinfContent == SubSeq(line, 3, Len(line))
        lastCommaIndex == TitleSplit(extinfContent)
    IN  IF extinfContent = << >>
        THEN [set |-> TRUE, title |-> "Unknown", groupTitle |-> ""]
        ELSE IF lastCommaIndex # 0
        THEN [set |-> TRUE,
              title |-> Concat(Trim(SubSeq(extinfContent, lastCommaIndex + 1,
                                           Len(extinfContent)))),
              groupTitle |-> GroupTitleOf(Trim(SubSeq(extinfContent, 1,
                                                      lastCommaIndex - 1)))]
        ELSE [set |-> TRUE, title |-> Concat(extinfContent), groupTitle |-> ""]

\* isValidUrl: new URL(urlString) does not throw
IsValidUrl(l) == Len(l) = 1 /\ l[1] \in AbsoluteUrls

\* parseM3U: line.startsWith('#EXTINF:')
IsExtinfLine(l) == StartsWith(l, << Hash, ExtinfTag >>)

\* faulty variant: the line is not validated as a URL
IsUrlLineUnchecked(l) == ~IsExtinfLine(l) /\ ~StartsWith(l, << Hash >>)

\* parseM3U: the else-if branch, !line.startsWith('#') && this.isValidUrl(line)
IsUrlLine(l) == ~IsExtinfLine(l) /\ ~StartsWith(l, << Hash >>) /\ IsValidUrl(l)

\* parseM3U: the entry pushed for a URL line
EntryOf(l, reg) ==
    [url        |-> Concat(l),
     title      |-> IF reg.set THEN reg.title ELSE "Unknown",
     groupTitle |-> IF reg.set THEN reg.groupTitle ELSE ""]

\* faulty variant: the register is kept after an entry was pushed
KeepExtinf(reg) == reg

\* parseM3U: currentExtinf = null after entries.push(entry)
ClearExtinf(reg) == NoExtinf

\* -------------------------------------------------------------------- Init

\* before runCheck is called: nothing counted, no probe, no request
RunInit ==
    /\ pc = "start"
    /\ i = 0
    /\ aliveCount = 0
    /\ deadStreams = << >>
    /\ exitCode = -1
    /\ rate = ""
    /\ results = << >>
    /\ cpc = "idle"
    /\ attempt = 0
    /\ ret = "none"
    /\ result = NoResult
    /\ promise = NoPromise
    /\ head = NoRequest
    /\ get = NoRequest
    /\ calls = 0
    /\ gets = [a \in Attempts |-> 0]
    /\ gotResp = [a \in Attempts |-> FALSE]
    /\ probeLog = << >>
    /\ active = 0
    /\ runLog = << >>

\* The run over a playlist of n entries.  The text of the file is left out
\* here: of parseM3U's result only its length n is kept.
Init ==
    /\ fileExists \in BOOLEAN
    /\ n \in 0 .. MaxEntries
    /\ fileRead \in {"error", "empty", "text"}
    /\ fileExists = FALSE => fileRead = "error"
    /\ fileRead # "text" => n = 0
    /\ RunInit
    /\ content = << >>
    /\ lines = << >>
    /\ pos = 0
    /\ entries = << >>
    /\ currentExtinf = NoExtinf
    /\ ppc = "returned"

\* parseM3U is called on a file of the model.
ParseInit ==
    /\ fileExists \in BOOLEAN
    /\ fileRead \in {"error", "empty", "text"}
    /\ fileExists = FALSE => fileRead = "error"
    /\ content \in Contents
    /\ fileRead = "error" => content = << EmptyLine >>
    /\ fileRead = "empty" <=> (fileRead # "error" /\ content = << EmptyLine >>)
    /\ n = 0
    /\ RunInit
    /\ lines = << >>
    /\ pos = 0
    /\ entries = << >>
    /\ currentExtinf = NoExtinf
    /\ ppc = "start"

\* --------------------------------------------------------------- checkUrl

\* this.makeRequest(url) up to req.end(): a new promise and the HEAD request
\* in flight; the requests of the attempt before are left out of the state.
MakeRequestCall ==
    /\ promise' = Pending
    /\ head' = [state |-> "inflight", status |-> 0]
    /\ get' = NoRequest

\* this.checkUrl(entry.url) up to its first await: attempt 0 calls
\* makeRequest.
CheckUrlCall ==
    /\ cpc' = "await"
    /\ attempt' = 0
    /\ ret' = "none"
    /\ result' = NoResult
    /\ MakeRequestCall
    /\ calls' = 1
    /\ gets' = [a \in Attempts |-> 0]
    /\ gotResp' = [a \in Attempts |-> FALSE]
    /\ probeLog' = << Ev("request", 0) >>
    /\ active' = active + 1

\* checkUrl returns r (the async function's promise is fulfilled)
CheckUrlReturn(kind, r, log) ==
    /\ cpc' = "returned"
    /\ ret' = kind
    /\ result' = r
    /\ probeLog' = Append(log, Ev("return", 0))
    /\ active' = active - 1

\* The continuation of `await this.makeRequest(url)`: the try block's
\* remainder when the promise was resolved, the catch block when rejected.
CheckUrlResume ==
    /\ cpc = "await"
    /\ promise.state \in {"resolved", "rejected"}
    /\ IF promise.state = "resolved"
       THEN /\ CheckUrlReturn("value", StatusResult(promise.statusCode),
                              Append(probeLog, Ev("status", promise.statusCode)))
            /\ UNCHANGED << attempt, calls >>
       ELSE IF IsLastAttempt(attempt)
       THEN /\ CheckUrlReturn("value", FailureResult(promise.message),
                              Append(probeLog, Ev("failed", attempt)))
            /\ UNCHANGED << attempt, calls >>
       ELSE /\ cpc' = "sleep"
            /\ probeLog' = probeLog \o << Ev("failed", attempt),
                                          Ev("sleep", Backoff(attempt)) >>
            /\ UNCHANGED << attempt, ret, result, calls, active >>
    /\ UNCHANGED << promise, head, get, gets, gotResp >>
    /\ UNCHANGED runVars

\* The backoff timer fires: attempt++, the loop condition, and either the
\* next makeRequest or the end of the function body (undefined).
BackoffDone ==
    /\ cpc = "sleep"
    /\ attempt' = NextAttempt(attempt)
    /\ IF LoopCond(attempt')
       THEN /\ cpc' = "await"
            /\ MakeRequestCall
            /\ calls' = calls + 1
            /\ probeLog' = Append(probeLog, Ev("request", attempt'))
            /\ UNCHANGED << ret, result, active >>
       ELSE /\ CheckUrlReturn("undefined", NoResult, probeLog)
            /\ UNCHANGED << promise, head, get, calls >>
    /\ UNCHANGED << gets, gotResp >>
    /\ UNCHANGED runVars

\* ------------------------------------------------------------ makeRequest

\* The HEAD request's response callback: a 405 starts makeGetRequest, whose
\* promise settles this one; any other status resolves the promise.
HeadResponse(s) ==
    /\ CanDeliver
    /\ head.state = "inflight"
    /\ head' = [state |-> "responded", status |-> s]
    /\ gotResp' = [gotResp EXCEPT ![attempt] = TRUE]
    /\ IF NeedsGetFallback(s)
       THEN /\ get' = [state |-> "inflight", status |-> 0]
            /\ gets' = [gets EXCEPT ![attempt] = gets[attempt] + 1]
            /\ UNCHANGED promise
       ELSE /\ promise' = Resolve(promise, s)
            /\ UNCHANGED << get, gets >>
    /\ UNCHANGED checkVars
    /\ UNCHANGED runVars

\* req.on('timeout'): the socket was idle for REQUEST_TIMEOUT ms, before the
\* response or after it (the listener is never removed): req.destroy() and
\* reject.
HeadTimeout ==
    /\ CanDeliver
    /\ head.state \in {"inflight", "responded"}
    /\ head' = [head EXCEPT !.state = "destroyed"]
    /\ promise' = Reject(promise, TimeoutMessage)
    /\ UNCHANGED << get, gets, gotResp >>
    /\ UNCHANGED checkVars
    /\ UNCHANGED runVars

\* req.on('error'): a socket error before the response or after it.
HeadError(err) ==
    /\ CanDeliver
    /\ head.state \in {"inflight", "responded"}
    /\ head' = [head EXCEPT !.state = "closed"]
    /\ promise' = Reject(promise, ClassifyError(err))
    /\ UNCHANGED << get, gets, gotResp >>
    /\ UNCHANGED checkVars
    /\ UNCHANGED runVars

\* req.on('error') with the "socket hang up" that req.destroy() makes the
\* request emit on the next tick, before the awaiting continuation runs.
HeadHangUp ==
    /\ cpc = "await"
    /\ head.state = "destroyed"
    /\ head' = [head EXCEPT !.state = "closed"]
    /\ promise' = Reject(promise, ClassifyError(HangUp))
    /\ UNCHANGED << get, gets, gotResp >>
    /\ UNCHANGED checkVars
    /\ UNCHANGED runVars

\* The HEAD request's socket closes after the response without an error:
\* no listener of makeRequest runs.
HeadClose ==
    /\ CanDeliver
    /\ head.state = "responded"
    /\ head' = [head EXCEPT !.state = "closed"]
    /\ UNCHANGED << promise, get, gets, gotResp >>
    /\ UNCHANGED checkVars
    /\ UNCHANGED runVars

\* --------------------------------------------------------- makeGetRequest

\* The GET request's response callback: it only registers the 'data' and
\* 'end' listeners of the response.
GetResponse(s) ==
    /\ CanDeliver
    /\ get.state = "inflight"
    /\ get' = [state |-> "body", status |-> s]
    /\ gotResp' = [gotResp EXCEPT ![attempt] = TRUE]
    /\ UNCHANGED << promise, head, gets >>
    /\ UNCHANGED checkVars
    /\ UNCHANGED runVars

\* res.on('end'): the body was read to its end: resolve with res.statusCode.
GetEnd ==
    /\ CanDeliver
    /\ get.state = "body"
    /\ get' = [get EXCEPT !.state = "ended"]
    /\ promise' = Resolve(promise, get.status)
    /\ UNCHANGED << head, gets, gotResp >>
    /\ UNCHANGED checkVars
    /\ UNCHANGED runVars

\* The connection closes before the body's end: the response is aborted
\* ('aborted'/'close' on res); the request emits no 'error' and no
\* 'timeout', and res.on('end') never runs.
GetAbort ==
    /\ CanDeliver
    /\ get.state = "body"
    /\ get' = [get EXCEPT !.state = "aborted"]
    /\ UNCHANGED << promise, head, gets, gotResp >>
    /\ UNCHANGED checkVars
    /\ UNCHANGED runVars

\* req.on('timeout') of the GET request: req.destroy() and reject.
GetTimeout ==
    /\ CanDeliver
    /\ get.state \in {"inflight", "body"}
    /\ get' = [get EXCEPT !.state = "destroyed"]
    /\ promise' = Reject(promise, TimeoutMessage)
    /\ UNCHANGED << head, gets, gotResp >>
    /\ UNCHANGED checkVars
    /\ UNCHANGED runVars

\* req.on('error') of the GET request: reject(error).
GetError(err) ==
    /\ CanDeliver
    /\ get.state \in {"inflight", "body"}
    /\ get' = [get EXCEPT !.state = "closed"]
    /\ promise' = Reject(promise, GetErrorMessage(err))
    /\ UNCHANGED << head, gets, gotResp >>
    /\ UNCHANGED checkVars
    /\ UNCHANGED runVars

\* req.on('error') of the GET request with the "socket hang up" of the
\* destroyed request, before the awaiting continuation runs.
GetHangUp ==
    /\ cpc = "await"
    /\ get.state = "destroyed"
    /\ get' = [get EXCEPT !.state = "closed"]
    /\ promise' = Reject(promise, GetErrorMessage(HangUp))
    /\ UNCHANGED << head, gets, gotResp >>
    /\ UNCHANGED checkVars
    /\ UNCHANGED runVars

\* --------------------------------------------------------------- runCheck

\* One loop iteration of runCheck up to `await this.checkUrl(entry.url)`.
StartProbe(k) ==
    /\ pc' = "probe"
    /\ i' = k
    /\ runLog' = Append(runLog, Ev("probe", k))
    /\ CheckUrlCall

\* parseM3U throws "<file> not found!": the catch block logs the error and
\* calls process.exit(1).
RunCheckMissing ==
    /\ pc = "start"
    /\ ~fileExists
    /\ pc' = "exit"
    /\ exitCode' = 1
    /\ UNCHANGED << fileVars, i, aliveCount, deadStreams, rate, results, runLog >>
    /\ UNCHANGED checkVars
    /\ UNCHANGED << promise, head, get, gets, gotResp >>

\* fs.readFileSync throws (the file is there but cannot be read): the catch
\* block logs the error and calls process.exit(1).
RunCheckUnreadable ==
    /\ pc = "start"
    /\ fileExists
    /\ fileRead = "error"
    /\ pc' = "exit"
    /\ exitCode' = 1
    /\ UNCHANGED << fileVars, i, aliveCount, deadStreams, rate, results, runLog >>
    /\ UNCHANGED checkVars
    /\ UNCHANGED << promise, head, get, gets, gotResp >>

\* entries.length === 0: "No stream URLs found in playlist" and return; the
\* process ends with status 0 when nothing is left to run.
RunCheckEmpty ==
    /\ pc = "start"
    /\ fileExists
    /\ fileRead # "error"
    /\ NoEntries(n)
    /\ pc' = "done"
    /\ exitCode' = 0
    /\ runLog' = Append(runLog, Ev("empty", 0))
    /\ UNCHANGED << fileVars, i, aliveCount, deadStreams, rate, results >>
    /\ UNCHANGED checkVars
    /\ UNCHANGED << promise, head, get, gets, gotResp >>

\* The playlist was not found empty: the loop starts with entry 0; a loop
\* over no entries goes on to the summary.
RunCheckBegin ==
    /\ pc = "start"
    /\ fileExists
    /\ fileRead # "error"
    /\ ~NoEntries(n)
    /\ IF 0 < n
       THEN /\ StartProbe(0)
            /\ UNCHANGED << exitCode, rate >>
       ELSE /\ pc' = "done"
            /\ runLog' = Append(runLog, Ev("summary", 0))
            /\ rate' = SuccessRate(aliveCount, n)
            /\ exitCode' = 0
            /\ UNCHANGED i
            /\ UNCHANGED checkVars
            /\ UNCHANGED << promise, head, get, gets, gotResp >>
    /\ UNCHANGED << fileVars, aliveCount, deadStreams, results >>

\* The continuation of `await this.checkUrl(entry.url)`: count the result,
\* then sleep before the next entry or print the summary after the last.
\* Reading result.isAlive of undefined throws: the catch block exits with 1.
RunCheckResume ==
    /\ pc = "probe"
    /\ cpc = "returned"
    /\ cpc' = "idle"
    /\ IF ret = "undefined"
       THEN /\ pc' = "exit"
            /\ exitCode' = 1
            /\ UNCHANGED << aliveCount, deadStreams, rate, results, runLog >>
       ELSE /\ results' = Append(results, result)
            /\ IF result.isAlive
               THEN /\ aliveCount' = CountAlive(aliveCount)
                    /\ UNCHANGED deadStreams
               ELSE /\ deadStreams' = PushDead(deadStreams, i, result)
                    /\ UNCHANGED aliveCount
            /\ IF MoreEntries(i, n)
               THEN /\ pc' = "delay"
                    /\ runLog' = runLog \o << Ev("result", i),
                                              Ev("sleep", DELAY_BETWEEN_REQUESTS) >>
                    /\ UNCHANGED << exitCode, rate >>
               ELSE /\ pc' = "done"
                    /\ runLog' = runLog \o << Ev("result", i), Ev("summary", 0) >>
                    /\ rate' = SuccessRate(aliveCount', n)
                    /\ exitCode' = 0
    /\ UNCHANGED << fileVars, i >>
    /\ UNCHANGED << attempt, ret, result, calls, probeLog, active >>
    /\ UNCHANGED << promise, head, get, gets, gotResp >>

\* The inter-entry timer fires: i++ and the next iteration.
DelayDone ==
    /\ pc = "delay"
    /\ StartProbe(i + 1)
    /\ UNCHANGED << fileVars, aliveCount, deadStreams, exitCode, rate, results >>

\* -------------------------------------------------------------------- Next

Next ==
    \/ RunCheckMissing
    \/ RunCheckUnreadable
    \/ RunCheckEmpty
    \/ RunCheckBegin
    \/ RunCheckResume
    \/ DelayDone
    \/ CheckUrlResume
    \/ BackoffDone
    \/ \E s \in Statuses : HeadResponse(s)
    \/ \E s \in Statuses : GetResponse(s)
    \/ GetEnd
    \/ GetAbort
    \/ \E err \in GetErrors : GetError(err)
    \/ GetTimeout
    \/ GetHangUp
    \/ \E err \in Errors : HeadError(err)
    \/ HeadTimeout
    \/ HeadHangUp
    \/ HeadClose

Spec == Init /\ [][Next]_vars

\* The event loop runs whatever is ready: a queued continuation, a timer
\* that fired, an event of a request in flight.
FairSpec == Spec /\ WF_vars(Next)

\* --------------------------------------------------------------- parseM3U

\* !fs.existsSync(filepath): throw new Error(`${filepath} not found!`)
ParseMissing ==
    /\ ppc = "start"
    /\ ~fileExists
    /\ ppc' = "thrown"
    /\ UNCHANGED << fileExists, fileRead, n, content, lines, pos, entries,
                    currentExtinf >>
    /\ UNCHANGED probeVars

\* fs.readFileSync throws
ParseUnreadable ==
    /\ ppc = "start"
    /\ fileExists
    /\ fileRead = "error"
    /\ ppc' = "thrown"
    /\ UNCHANGED << fileExists, fileRead, n, content, lines, pos, entries,
                    currentExtinf >>
    /\ UNCHANGED probeVars

\* The file is read and split into lines; entries = [], currentExtinf = null.
ParseRead ==
    /\ ppc = "start"
    /\ fileExists
    /\ fileRead # "error"
    /\ lines' = SplitLines(content)
    /\ pos' = 1
    /\ entries' = << >>
    /\ currentExtinf' = NoExtinf
    /\ ppc' = "loop"
    /\ UNCHANGED << fileExists, fileRead, n, content >>
    /\ UNCHANGED probeVars

\* One iteration of the loop on a line that starts with "#EXTINF:".
ParseExtinfLine ==
    /\ ppc = "loop"
    /\ pos <= Len(lines)
    /\ IsExtinfLine(lines[pos])
    /\ currentExtinf' = ParseExtinf(lines[pos])
    /\ pos' = pos + 1
    /\ UNCHANGED << fileExists, fileRead, n, content, lines, entries, ppc >>
    /\ UNCHANGED probeVars

\* One iteration of the loop on a URL line: the entry is pushed and the
\* register cleared.
ParseUrlLine ==
    /\ ppc = "loop"
    /\ pos <= Len(lines)
    /\ IsUrlLine(lines[pos])
    /\ entries' = Append(entries, EntryOf(lines[pos], currentExtinf))
    /\ currentExtinf' = ClearExtinf(currentExtinf)
    /\ pos' = pos + 1
    /\ UNCHANGED << fileExists, fileRead, n, content, lines, ppc >>
    /\ UNCHANGED probeVars

\* One iteration of the loop on any other line (a comment, a line that is
\* no URL): nothing happens.
ParseOtherLine ==
    /\ ppc = "loop"
    /\ pos <= Len(lines)
    /\ ~IsExtinfLine(lines[pos])
    /\ ~IsUrlLine(lines[pos])
    /\ pos' = pos + 1
    /\ UNCHANGED << fileExists, fileRead, n, content, lines, entries,
                    currentExtinf, ppc >>
    /\ UNCHANGED probeVars

\* return entries; runCheck reads entries.length
ParseReturn ==
    /\ ppc = "loop"
    /\ pos > Len(lines)
    /\ ppc' = "returned"
    /\ n' = Len(entries)
    /\ UNCHANGED << fileExists, fileRead, content, lines, pos, entries,
                    currentExtinf >>
    /\ UNCHANGED probeVars

ParseNext ==
    \/ ParseMissing
    \/ ParseUnreadable
    \/ ParseRead
    \/ ParseExtinfLine
    \/ ParseUrlLine
    \/ ParseOtherLine
    \/ ParseReturn

ParseSpec == ParseInit /\ [][ParseNext]_vars

\* ------------------------------------------------------------------ claims

Returned == cpc = "returned"

RequestCount == Cardinality({ p \in 1 .. Len(probeLog) : probeLog[p].ev = "request" })

\* C1: one call of checkUrl starts at most MAX_RETRIES = 2 attempts: it calls
\* makeRequest at most twice, whatever the outcomes of the requests are.
C1_RetryBound ==
    /\ calls <= 2
    /\ RequestCount = calls
    /\ attempt < 2

\* C1 witness: a probe that used both attempts and returned.
C1_Witness == Returned /\ calls = 2 /\ result.statusCode = 0

\* C2: a returned result is alive iff the probe ended on an attempt whose
\* status is < 400; a final status >= 400 gives {false, "HTTP <status>",
\* status}; a transport failure on the last attempt gives isAlive = false;
\* and error is empty iff isAlive.
C2_AliveIffStatusOk ==
    Returned =>
        /\ result.isAlive <=> (promise.state = "resolved" /\ promise.statusCode < 400)
        /\ (promise.state = "resolved" /\ promise.statusCode >= 400) =>
              result = [isAlive |-> FALSE,
                        error |-> "HTTP " \o ToString(promise.statusCode),
                        statusCode |-> promise.statusCode]
        /\ promise.state = "rejected" => (~result.isAlive /\ attempt = 1)
        /\ (result.error = "") <=> result.isAlive

\* C2 witness: a probe that returned dead on a 404 after one retry.
C2_Witness == Returned /\ attempt = 1 /\ result.error = "HTTP 404"

C4_AlwaysResult ==
    /\ ret \in {"none", "value"}
    /\ Returned =>
          /\ ret = "value"
          /\ \/ result.isAlive /\ result.error = "" /\ result.statusCode \in Statuses
             \/ ~result.isAlive /\ result.error # ""
                  /\ result.statusCode \in Statuses \cup {0}
    /\ exitCode = 1 => (~fileExists \/ fileRead = "error")

\* C4 witness: a probe that returned Dead after the GET fallback of its last
\* attempt failed.
C4_Witness == Returned /\ gets[1] = 1 /\ get.state = "closed" /\ ~result.isAlive

\* C5: every probe eventually completes: once checkUrl is called it
\* eventually returns, however its requests end (response, body ended or
\* connection closed before the body ended, timeout, error), on the HEAD and
\* on the GET request.
C5_ProbeCompletes == (cpc \in {"await", "sleep"}) ~> Returned

\* The attempt's requests have produced a response status: the GET fallback's
\* when its body ended, else the HEAD request's when it is not a 405.
HasStatus == get.state = "ended" \/ head.status \notin {0, 405}

StatusOf == IF get.state = "ended" THEN get.status ELSE head.status

SleepCount == Cardinality({ p \in 1 .. Len(probeLog) : probeLog[p].ev = "sleep" })

\* C6: a status >= 400 is never retried: when an attempt ends with one,
\* checkUrl returns Dead with that status at once: no backoff sleep and no
\* further attempt follow it.
C6_NoRetryOnStatus ==
    (HasStatus /\ StatusOf >= 400) =>
        /\ cpc \in {"await", "returned", "idle"}
        /\ cpc = "await" => promise = [state |-> "resolved",
                                       statusCode |-> StatusOf, message |-> ""]
        /\ cpc \in {"returned", "idle"} =>
              /\ result = [isAlive |-> FALSE,
                           error |-> "HTTP " \o ToString(StatusOf),
                           statusCode |-> StatusOf]
              /\ Len(probeLog) >= 3
              /\ probeLog[Len(probeLog)] = Ev("return", 0)
              /\ probeLog[Len(probeLog) - 1] = Ev("status", StatusOf)
              /\ probeLog[Len(probeLog) - 2] = Ev("request", attempt)
        /\ SleepCount = attempt
        /\ calls = attempt + 1

\* C6 witness: the first attempt ended with 404 and checkUrl has returned.
C6_Witness == Returned /\ attempt = 0 /\ head.status = 404 /\ result.statusCode = 404

\* C7 as amended: a transport failure of attempt k is followed, when k is
\* the last attempt (k = 1), by the return of {false, message, 0} without a
\* sleep, and otherwise by a sleep of 1000 * (k + 1) ms and only then by
\* attempt k + 1; a sleep follows nothing but the transport failure of an
\* attempt that is not the last, so none follows an attempt that ended with
\* a response status.
C7_Backoff ==
    /\ \A p \in 1 .. Len(probeLog) :
          LET e == probeLog[p] IN
          /\ (e.ev = "failed" /\ e.k = 1) =>
                /\ p + 1 = Len(probeLog)
                /\ probeLog[p + 1].ev = "return"
                /\ result = [isAlive |-> FALSE, error |-> promise.message,
                             statusCode |-> 0]
                /\ promise.state = "rejected"
          /\ (e.ev = "failed" /\ e.k # 1) =>
                /\ p + 1 <= Len(probeLog)
                /\ probeLog[p + 1] = Ev("sleep", 1000 * (e.k + 1))
                /\ p + 2 <= Len(probeLog) => probeLog[p + 2] = Ev("request", e.k + 1)
          /\ e.ev = "sleep" =>
                /\ p > 1
                /\ probeLog[p - 1].ev = "failed"
                /\ probeLog[p - 1].k < 1
          /\ (e.ev = "request" /\ e.k > 0) =>
                /\ p > 1
                /\ probeLog[p - 1].ev = "sleep"
    /\ cpc = "sleep" <=> (probeLog # << >> /\ probeLog[Len(probeLog)].ev = "sleep")

\* C7 as stated: the above, and no backoff sleep after an attempt that
\* received a response.
C7_Original ==
    /\ C7_Backoff
    /\ \A p \in 1 .. Len(probeLog) :
          probeLog[p].ev = "sleep" => ~gotResp[probeLog[p - 1].k]

\* C7 witness: both attempts failed with a backoff sleep between them, the
\* first one after its HEAD request had received a response.
C7_Witness ==
    /\ Returned
    /\ gotResp[0]
    /\ probeLog = << Ev("request", 0), Ev("failed", 0), Ev("sleep", 1000),
                     Ev("request", 1), Ev("failed", 1), Ev("return", 0) >>

\* the short messages a transport failure is classified into
ShortMessages ==
    { "Timeout after 10000ms", "Connection refused", "Host not found",
      "Connection timeout" }
    \cup { "Connection error: " \o err.message : err \in Errors }

\* C8: every transport failure, on the HEAD or on the GET request, reaches
\* the result as one of the short messages, never as a raw error message.
C8_Classified ==
    (Returned /\ promise.state = "rejected") => result.error \in ShortMessages

\* C9 as stated: statusCode is 0 exactly when no response was received
\* during the probe.
C9_Original ==
    Returned => (result.statusCode = 0 <=> \A a \in Attempts : ~gotResp[a])

\* C9 as amended: statusCode is 0 exactly when the probe ended with the
\* transport failure of its last attempt and not with a response status; a
\* probe that received no response at all reports 0, and so does one whose
\* requests received responses but whose last attempt failed.
C9_StatusZero ==
    Returned =>
        /\ result.statusCode = 0 <=> promise.state = "rejected"
        /\ result.statusCode = 0 <=> ~HasStatus
        /\ (\A a \in Attempts : ~gotResp[a]) => result.statusCode = 0

\* C9 witness: 405 on HEAD and a failed GET fallback on both attempts.
C9_Witness ==
    Returned /\ result.statusCode = 0 /\ gotResp[0] /\ gotResp[1] /\ gets[1] = 1

\* C10: probes never overlap: at most one checkUrl call is in progress, the
\* probe of entry k + 1 starts only after the probe of entry k has returned
\* and the 1000 ms sleep after it has elapsed, and no sleep follows the last
\* entry.
C10_Sequential ==
    /\ active <= 1
    /\ active = 1 <=> cpc \in {"await", "sleep"}
    /\ cpc \in {"await", "sleep", "returned"} => pc = "probe"
    /\ \A p \in 1 .. Len(runLog) :
          LET e == runLog[p] IN
          /\ e.ev = "probe" =>
                IF e.k = 0 THEN p = 1
                ELSE /\ p > 2
                     /\ runLog[p - 1] = Ev("sleep", 1000)
                     /\ runLog[p - 2] = Ev("result", e.k - 1)
          /\ e.ev = "result" => (p > 1 /\ runLog[p - 1] = Ev("probe", e.k))
          /\ e.ev = "sleep" =>
                (p > 1 /\ runLog[p - 1].ev = "result" /\ runLog[p - 1].k < n - 1)
          /\ e.ev = "summary" => (p > 1 /\ runLog[p - 1] = Ev("result", n - 1))
    /\ pc = "delay" <=> (runLog # << >> /\ runLog[Len(runLog)].ev = "sleep")

\* C10 witness: a run over three entries that reached its summary.
C10_Witness == pc = "done" /\ n = 3 /\ Len(runLog) = 9

\* the events of one kind in runCheck's log, in the order they happened
RunEvents(kind) == SelectSeq(runLog, LAMBDA e : e.ev = kind)

\* C11: results are gathered and reported in playlist order: the k-th
\* progress line and probe and the k-th result are those of the k-th parsed
\* entry, and the dead list keeps the entries' relative order, each dead
\* entry with the result its own probe returned.
C11_PlaylistOrder ==
    /\ \A p \in 1 .. Len(RunEvents("probe")) : RunEvents("probe")[p].k = p - 1
    /\ \A p \in 1 .. Len(RunEvents("result")) : RunEvents("result")[p].k = p - 1
    /\ Len(RunEvents("result")) = Len(results)
    /\ Len(RunEvents("probe")) \in {Len(results), Len(results) + 1}
    /\ \A a, b \in 1 .. Len(deadStreams) :
          a < b => deadStreams[a].idx < deadStreams[b].idx
    /\ \A a \in 1 .. Len(deadStreams) :
          LET d == deadStreams[a] IN
          /\ d.idx + 1 \in 1 .. Len(results)
          /\ ~results[d.idx + 1].isAlive
          /\ d.error = results[d.idx + 1].error
          /\ d.statusCode = results[d.idx + 1].statusCode

\* C11 witness: a finished run over three entries whose first and last
\* entries are dead, with different errors, and whose second one is alive.
C11_Witness ==
    /\ pc = "done"
    /\ Len(deadStreams) = 2
    /\ deadStreams[1].idx = 0
    /\ deadStreams[2].idx = 2
    /\ deadStreams[1].error # deadStreams[2].error

\* the positions (1-based) of the probes that returned isAlive = true / false
AliveProbes == { k \in 1 .. Len(results) : results[k].isAlive }
DeadProbes  == { k \in 1 .. Len(results) : ~results[k].isAlive }

\* the three probes of the end-to-end scenario returned 200, 404 and a
\* timeout
Scenario ==
    /\ n = 3
    /\ Len(results) = 3
    /\ results[1].statusCode = 200
    /\ results[2].statusCode = 404
    /\ results[3].error = TimeoutMessage

\* C12: aggregation is exact: aliveCount is the number of probes that
\* returned isAlive = true, the dead list holds exactly the other entries
\* with their probe errors, aliveCount + deadCount is i + 1 after loop
\* iteration i and n at the end of a run over n >= 1 entries; probes
\* returning [200, 404, timeout] give aliveCount 1, deadCount 2 and the dead
\* entries 2 and 3 with "HTTP 404" and the timeout message.
C12_Aggregation ==
    /\ aliveCount = Cardinality(AliveProbes)
    /\ Len(deadStreams) = Cardinality(DeadProbes)
    /\ \A k \in DeadProbes :
          \E a \in 1 .. Len(deadStreams) :
              deadStreams[a] = [idx |-> k - 1, error |-> results[k].error,
                                statusCode |-> results[k].statusCode]
    /\ aliveCount + Len(deadStreams) = Len(results)
    /\ pc = "probe" => aliveCount + Len(deadStreams) = i
    /\ pc = "delay" => aliveCount + Len(deadStreams) = i + 1
    /\ (pc = "done" /\ n >= 1) => aliveCount + Len(deadStreams) = n
    /\ (pc = "done" /\ Scenario) =>
          /\ aliveCount = 1
          /\ deadStreams =
                << [idx |-> 1, error |-> "HTTP 404", statusCode |-> 404],
                   [idx |-> 2, error |-> "Timeout after 10000ms", statusCode |-> 0] >>
          /\ rate = "33.3"

\* C12 witness: the finished run of the end-to-end scenario.
C12_Witness == pc = "done" /\ Scenario

\* C13: when parsing yields zero entries, runCheck issues no probe and no
\* sleep, reports that no entries were found, never computes the success
\* rate, and ends without a failure exit.
C13_EmptyPlaylist ==
    (fileExists /\ fileRead # "error" /\ n = 0) =>
        /\ calls = 0
        /\ active = 0
        /\ cpc = "idle"
        /\ promise = NoPromise
        /\ RunEvents("probe") = << >>
        /\ RunEvents("sleep") = << >>
        /\ RunEvents("summary") = << >>
        /\ rate = ""
        /\ pc \in {"start", "done"}
        /\ exitCode \in {-1, 0}
        /\ pc = "done" => (runLog = << Ev("empty", 0) >> /\ exitCode = 0)

\* C13 witness: the run over a playlist without entries (a header only) has
\* ended.
C13_Witness == pc = "done" /\ n = 0 /\ fileRead = "text" /\ exitCode = 0

\* the run has ended: runCheck returned or the process was exited
Ended == pc \in {"done", "exit"}

\* C14: the exit status is non-zero whenever the run could not proceed:
\* when the playlist file is missing or unreadable and when it is empty; in
\* the missing/unreadable case no probe is issued and no summary emitted.
C14_ExitStatus ==
    /\ (Ended /\ (~fileExists \/ fileRead \in {"error", "empty"})) =>
          exitCode \notin {-1, 0}
    /\ (~fileExists \/ fileRead = "error") =>
          /\ calls = 0
          /\ runLog = << >>
          /\ rate = ""

\* The part of C15 that is about what a run never does: with a playlist
\* that was read, process.exit(1) is never called, and a run that reached
\* its end probed every entry and printed the summary.
NoFailureExit ==
    (fileExists /\ fileRead # "error") =>
        /\ exitCode \in {-1, 0}
        /\ pc # "exit"
        /\ (pc = "done" /\ n > 0) =>
              /\ Len(RunEvents("probe")) = n
              /\ Len(results) = n
              /\ runLog[Len(runLog)] = Ev("summary", 0)
              /\ rate # ""

\* C15: per-entry failures never stop the run: whatever the probes'
\* outcomes are, a run that started probing goes on until every entry is
\* probed and the summary is printed, and it does not exit with status 1.
C15_RunCompletes ==
    (pc = "probe") ~> (pc = "done" /\ Len(results) = n /\ exitCode = 0)

\* the first k lines of the file, trimmed
TrimmedLines(k) == [m \in 1 .. k |-> Trim(content[m])]

\* the lines among the first k of the file that are no comment and are a
\* valid absolute URL, in file order
UrlLinesOf(k) ==
    SelectSeq(TrimmedLines(k),
              LAMBDA l : ~StartsWith(l, << Hash >>) /\ IsValidUrl(l))

\* C16: parsing keeps the order and makes one entry per URL line: the
\* number of entries is the number of non-comment lines that are valid
\* absolute URLs, entry j carries the URL of the j-th such line, and
\* metadata lines, comment lines and invalid lines make no entry.
C16_OneEntryPerUrlLine ==
    ppc = "returned" =>
        /\ Len(entries) = Len(UrlLinesOf(Len(content)))
        /\ \A j \in 1 .. Len(entries) :
              entries[j].url = Concat(UrlLinesOf(Len(content))[j])
        /\ n = Len(entries)

\* C16 witness: a file of two URL lines around a line that is no URL was
\* parsed into two entries.
C16_Witness ==
    /\ ppc = "returned"
    /\ content = << UrlLineB, BadLine, UrlLineA >>
    /\ Len(entries) = 2
    /\ entries[1].url = "https://b.example/tv"
    /\ entries[2].url = "http://a.example/live.m3u8"

\* the positions in lines, among those the loop has gone through, of the
\* lines that made an entry
EmittedAt == SelectSeq([k \in 1 .. pos - 1 |-> k], LAMBDA k : IsUrlLine(lines[k]))

\* the positions of the "#EXTINF:" lines strictly between two positions
ExtinfBetween(from, to) ==
    { k \in from + 1 .. to - 1 : IsExtinfLine(lines[k]) }

\* what the most recent "#EXTINF:" line strictly between two positions
\* says, nothing (currentExtinf = null) when there is none
PendingBetween(from, to) ==
    LET at == ExtinfBetween(from, to)
    IN  IF at = {} THEN NoExtinf
        ELSE ParseExtinf(lines[CHOOSE k \in at : \A m \in at : m <= k])

\* C17: the register of pending metadata holds at most one block: an entry
\* takes its title and groupTitle from the most recent "#EXTINF:" line since
\* the entry before it, or is {"Unknown", ""} when there was none, and the
\* register is cleared with every entry.
C17_PendingMetadata ==
    ppc \in {"loop", "returned"} =>
        /\ Len(EmittedAt) = Len(entries)
        /\ \A j \in 1 .. Len(entries) :
              LET before == IF j = 1 THEN 0 ELSE EmittedAt[j - 1]
                  reg    == PendingBetween(before, EmittedAt[j])
              IN  IF reg.set
                  THEN /\ entries[j].title = reg.title
                       /\ entries[j].groupTitle = reg.groupTitle
                  ELSE /\ entries[j].title = "Unknown"
                       /\ entries[j].groupTitle = ""
        /\ currentExtinf =
              PendingBetween(IF entries = << >> THEN 0
                             ELSE EmittedAt[Len(entries)], pos)
        /\ (pos > 1 /\ IsUrlLine(lines[pos - 1])) => currentExtinf = NoExtinf

\* C17 witness: of two "#EXTINF:" lines before a URL the later one was
\* taken, and the next URL, with no "#EXTINF:" line of its own, is Unknown.
C17_Witness ==
    /\ ppc = "returned"
    /\ content = << PlainLine, GroupCommaLine, UrlLineA, UrlLineB >>
    /\ entries = << [url |-> "http://a.example/live.m3u8", title |-> "City",
                     groupTitle |-> "News, Local"],
                    [url |-> "https://b.example/tv", title |-> "Unknown",
                     groupTitle |-> ""] >>

\* C18: the title keeps its commas: the metadata line
\*   #EXTINF:-1 group-title="News",Channel, The Show
\* gives title "Channel, The Show" and groupTitle "News", in the register
\* and in the entry made by the URL line that follows it.
C18_TitleKeepsCommas ==
    /\ (ppc = "loop" /\ pos > 1 /\ lines[pos - 1] = ShowLine) =>
          /\ currentExtinf.title = "Channel, The Show"
          /\ currentExtinf.groupTitle = "News"
    /\ (ppc = "returned" /\ content = << ShowLine, UrlLineA >>) =>
          entries = << [url |-> "http://a.example/live.m3u8",
                        title |-> "Channel, The Show", groupTitle |-> "News"] >>

\* the attempt's promise is settled
Settled == promise.state \in {"resolved", "rejected"}

\* After a 405 on HEAD the attempt's outcome is the GET request's own: its
\* status when the body ended, its timeout or its error.
DecidedByGet ==
    (head.status = 405 /\ Settled) =>
        /\ promise.state = "resolved" =>
              (get.state = "ended" /\ promise.statusCode = get.status)
        /\ promise.state = "rejected" => get.state \in {"destroyed", "closed"}

\* A settled promise stays as it is; in particular the "socket hang up" of a
\* request destroyed by its timeout handler leaves "Timeout after 10000ms".
DecidedOnce ==
    /\ (Settled /\ promise'.state # "pending") => promise' = promise
    /\ ((head.state = "destroyed" /\ head'.state = "closed")
           \/ (get.state = "destroyed" /\ get'.state = "closed")) =>
          (promise.message = TimeoutMessage /\ promise' = promise)

\* C20: each attempt is decided exactly once and, after a 405 on HEAD, only
\* by the GET fallback: a later timeout or error of the HEAD request cannot
\* become the attempt's outcome ahead of the GET's own result, and the error
\* a destroyed request emits does not replace the timeout outcome.
C20_DecidedByFallback == []DecidedByGet /\ [][DecidedOnce]_vars

====
